---- MODULE Spec2Model ----
(***************************************************************************)
(* Model of the Travel Planner chat backend (src/main.py).                 *)
(*                                                                         *)
(* Strings are sequences of one-character strings.  A Python list object   *)
(* is a cell of the heap `lists`; the global dict `conversations` maps a   *)
(* conversation id to the reference of its list, and a running chat        *)
(* generator holds the reference it obtained in the handler (the closure   *)
(* variable `history`).  One action of the model is the code that runs     *)
(* between two suspension points of the event loop (an await, a yield of   *)
(* the async generator), or up to a blocking call made on the event loop   *)
(* (the synchronous `for chunk in response`), during which no other        *)
(* handler or generator runs.                                              *)
(***************************************************************************)
EXTENDS Integers, Sequences, FiniteSets, TLC

\* ------------------------------------------------------------------ bounds
\* most chunks with text one upstream response delivers
MaxChunks == 2

\* ------------------------------------------------------------------ inputs
\* the POST /api/chat requests of one behaviour, in the order they arrive
Reqs == {1, 2}
Ids == {"c1", "c2"}
Whitespace == {" "}
\* message.content of a request body: "", "  ", " b"
Contents == {<<>>, <<" ", " ">>, <<" ", "b">>}
\* chunk.text of an upstream chunk: "", "x", "y"
ChunkTexts == {<<>>, <<"x">>, <<"y">>}
\* str(e) of an upstream exception: "t"
ExcTexts == {<<"t">>}

\* an upstream chunk: reading it either gives text or raises exc
Chunk(t, raises, e) == [text |-> t, raises |-> raises, exc |-> e]
GoodChunks == {Chunk(t, FALSE, <<>>) : t \in ChunkTexts}
BadChunks == {Chunk(<<>>, TRUE, e) : e \in ExcTexts}

\* what the streamed response delivers between two suspensions of the
\* generator: chunks without text, which the loop passes over, and then a
\* chunk with text, a chunk whose reading raises, or nothing more (the
\* iterator is exhausted)
Deliveries ==
  {skipped \o stop :
     skipped \in {<<>>, <<Chunk(<<>>, FALSE, <<>>)>>},
     stop \in {<<>>} \cup {<<c>> : c \in {g \in GoodChunks : g.text # <<>>} \cup BadChunks}}

\* ----------------------------------------------------------- program text
FALLBACK == <<"I", "?">>
ErrorPrefix == <<"E", ":", " ">>

Msg(role, text) == [role |-> role, content |-> text]

RECURSIVE lstrip(_)
lstrip(s) == IF s # <<>> /\ Head(s) \in Whitespace THEN lstrip(Tail(s)) ELSE s

RECURSIVE rstrip(_)
rstrip(s) ==
  IF s # <<>> /\ s[Len(s)] \in Whitespace THEN rstrip(SubSeq(s, 1, Len(s) - 1)) ELSE s

strip(s) == rstrip(lstrip(s))

IsEmptyMessage_nostrip(user_message) == user_message = <<>>

IsEmptyMessage(user_message) == user_message = <<>> \/ strip(user_message) = <<>>

error_msg(e) == ErrorPrefix \o e

EnsureResponse(full_response) ==
  IF full_response = <<>> THEN FALLBACK ELSE full_response

Accumulate_assign(full_response, text) == text

Accumulate(full_response, text) == full_response \o text

ShouldYieldError(full_response) == full_response = <<>>

ErrorResponse_accumulator(full_response, e) == full_response

ErrorResponse(full_response, e) ==
  IF full_response # <<>> THEN full_response ELSE error_msg(e)

AppendExchange_assistantonly(h, user_message, text) ==
  Append(h, Msg("assistant", text))

AppendExchange_front(h, user_message, text) ==
  <<Msg("user", user_message), Msg("assistant", text)>> \o h

AppendExchange_replacing(h, user_message, text) ==
  <<Msg("user", user_message), Msg("assistant", text)>>

AppendExchange_twice(h, user_message, text) ==
  Append(Append(Append(Append(h, Msg("user", user_message)), Msg("assistant", text)),
                Msg("user", user_message)), Msg("assistant", text))

AppendExchange(h, user_message, text) ==
  Append(Append(h, Msg("user", user_message)), Msg("assistant", text))

GeminiTurn(msg) ==
  [role |-> IF msg.role = "user" THEN msg.role ELSE "model", text |-> msg.content]

GeminiHistory(h) == [i \in 1..Len(h) |-> GeminiTurn(h[i])]

\* ------------------------------------------------------------------ state
VARIABLES
  conversations,  \* the dict: conversation id -> reference of its list
  lists,          \* heap of list objects: reference -> sequence of messages
  pc,             \* per chat request: where its handler / generator stands
  cid,            \* per chat request: message.conversation_id
  user_message,   \* per chat request: message.content
  history,        \* per chat request: reference held by the closure (0: none)
  chat_history,   \* per chat request: turns handed to model.start_chat
  asked,          \* per chat request: the message handed to chat.send_message
  received,       \* per chat request: texts of the chunks with text read so far
  full_response,  \* per chat request: the accumulator
  emitted,        \* per chat request: fragments yielded to the HTTP body
  exc,            \* per chat request: str(e) of the exception being handled
  outcome,        \* per chat request: how the generator ended
  upstream_calls, \* per chat request: number of send_message calls issued
  sent,           \* per id: accepted chat requests since the last clear, in order
  sequential,     \* per id: those requests did not overlap each other or a clear
  last            \* what the step executed last replied, if it was a request handler

vars == <<conversations, lists, pc, cid, user_message, history, chat_history,
          asked, received, full_response, emitted, exc, outcome, upstream_calls, sent,
          sequential, last>>

request_vars == <<cid, user_message, history, chat_history, asked, received,
                  full_response,
                  emitted, exc, outcome, upstream_calls>>

NoId == "-"

Step(op, r, id, status, messages) ==
  [op |-> op, req |-> r, conversation_id |-> id, status |-> status, messages |-> messages]

\* a step of a generator or of a client replies nothing
NoReply == Step("", 0, NoId, "", <<>>)

InFlight(r) == pc[r] \in {"ready", "awaiting", "iterating", "atyield", "atyielderror"}

\* no generator is inside a blocking call on the event loop
LoopFree == \A r \in Reqs : pc[r] # "iterating"

Init ==
  /\ conversations = [id \in {} |-> 0]
  /\ lists = <<>>
  /\ pc = [r \in Reqs |-> "idle"]
  /\ cid = [r \in Reqs |-> NoId]
  /\ user_message = [r \in Reqs |-> <<>>]
  /\ history = [r \in Reqs |-> 0]
  /\ chat_history = [r \in Reqs |-> <<>>]
  /\ asked = [r \in Reqs |-> <<>>]
  /\ received = [r \in Reqs |-> <<>>]
  /\ full_response = [r \in Reqs |-> <<>>]
  /\ emitted = [r \in Reqs |-> <<>>]
  /\ exc = [r \in Reqs |-> <<>>]
  /\ outcome = [r \in Reqs |-> "none"]
  /\ upstream_calls = [r \in Reqs |-> 0]
  /\ sent = [id \in Ids |-> <<>>]
  /\ sequential = [id \in Ids |-> TRUE]
  /\ last = NoReply

\* ---------------------------------------------------------------- helpers
DictGet(id) == IF id \in DOMAIN conversations THEN lists[conversations[id]] ELSE <<>>

DictDel_all(id) == [k \in {} |-> 0]

DictDel(id) == [k \in DOMAIN conversations \ {id} |-> conversations[k]]

DictSet_shared(id, ref) == [k \in DOMAIN conversations \cup {id} |-> 1]

DictSet(id, ref) == [k \in DOMAIN conversations \cup {id} |-> IF k = id THEN ref ELSE conversations[k]]

OthersInFlight(r, id) == \E q \in Reqs \ {r} : InFlight(q) /\ cid[q] = id

get_or_create_conversation(id) ==
  IF id \notin DOMAIN conversations
  THEN /\ lists' = Append(lists, <<>>)
       /\ conversations' = DictSet(id, Len(lists) + 1)
  ELSE UNCHANGED <<conversations, lists>>

RECURSIVE SkipEmpty(_)
SkipEmpty(resp) ==
  IF resp # <<>> /\ ~Head(resp).raises /\ Head(resp).text = <<>>
  THEN SkipEmpty(Tail(resp))
  ELSE resp

Commit_writeback(r, text) ==
  lists' = [lists EXCEPT ![history[r]] =
              AppendExchange(SubSeq(@, 1, Len(chat_history[r])), user_message[r], text)]

\* history.append(user); history.append(assistant): no suspension in between
Commit(r, text) ==
  lists' = [lists EXCEPT ![history[r]] = AppendExchange(@, user_message[r], text)]

Finish(r, how) ==
  /\ pc' = [pc EXCEPT ![r] = "done"]
  /\ outcome' = [outcome EXCEPT ![r] = how]

Except_retry(r, e) ==
  /\ exc' = [exc EXCEPT ![r] = e]
  /\ pc' = [pc EXCEPT ![r] = "awaiting"]
  /\ last' = NoReply
  /\ UNCHANGED <<full_response, received, emitted, lists, outcome>>

\* the except branch, entered with the accumulator as it stands
Except(r, e) ==
  /\ exc' = [exc EXCEPT ![r] = e]
  /\ UNCHANGED <<full_response, received>>
  /\ IF ShouldYieldError(full_response[r])
     THEN /\ emitted' = [emitted EXCEPT ![r] = Append(@, error_msg(e))]
          /\ pc' = [pc EXCEPT ![r] = "atyielderror"]
          /\ last' = NoReply
          /\ UNCHANGED <<lists, outcome>>
     ELSE /\ Commit(r, ErrorResponse(full_response[r], e))
          /\ Finish(r, "failed")
          /\ last' = NoReply
          /\ UNCHANGED emitted

TextFragments(r) == Len(received[r])

\* the for loop over the response, fed the chunks in resp, up to the next
\* suspension point or the end of the generator
Continue(r, resp) ==
  LET rest == SkipEmpty(resp) IN
  /\ rest # <<>> /\ ~Head(rest).raises => TextFragments(r) < MaxChunks
  /\ IF rest = <<>>
     THEN /\ full_response' = [full_response EXCEPT ![r] = EnsureResponse(@)]
          /\ Commit(r, EnsureResponse(full_response[r]))
          /\ Finish(r, "completed")
          /\ last' = NoReply
          /\ UNCHANGED <<emitted, exc, received>>
     ELSE IF Head(rest).raises
     THEN Except(r, Head(rest).exc)
     ELSE /\ received' = [received EXCEPT ![r] = Append(@, Head(rest).text)]
          /\ full_response' = [full_response EXCEPT
                                 ![r] = Accumulate(@, Head(rest).text)]
          /\ emitted' = [emitted EXCEPT ![r] = Append(@, Head(rest).text)]
          /\ pc' = [pc EXCEPT ![r] = "atyield"]
          /\ last' = NoReply
          /\ UNCHANGED <<lists, outcome, exc>>

\* ---------------------------------------------------------------- actions
\* POST /api/chat: the handler up to `return StreamingResponse(generate())`
chat(r, id, content) ==
  /\ LoopFree
  /\ pc[r] = "idle"
  /\ \A q \in Reqs : q < r => pc[q] # "idle"
  /\ cid' = [cid EXCEPT ![r] = id]
  /\ user_message' = [user_message EXCEPT ![r] = content]
  /\ UNCHANGED <<chat_history, asked, received, full_response, emitted, exc, outcome,
                 upstream_calls>>
  /\ IF IsEmptyMessage(content)
     THEN /\ pc' = [pc EXCEPT ![r] = "rejected"]
          /\ last' = Step("chat", r, id, "400", <<>>)
          /\ UNCHANGED <<conversations, lists, history, sent, sequential>>
     ELSE /\ get_or_create_conversation(id)
          /\ history' = [history EXCEPT ![r] = conversations'[id]]
          /\ \E built \in BOOLEAN :
               IF built
               THEN /\ pc' = [pc EXCEPT ![r] = "ready"]
                    /\ last' = Step("chat", r, id, "200", <<>>)
                    /\ sent' = [sent EXCEPT ![id] = Append(@, r)]
                    /\ sequential' = [sequential EXCEPT
                                        ![id] = @ /\ ~OthersInFlight(r, id)]
               ELSE /\ pc' = [pc EXCEPT ![r] = "error"]
                    /\ last' = Step("chat", r, id, "500", <<>>)
                    /\ UNCHANGED <<sent, sequential>>

GenStart_serialized(r) ==
  /\ LoopFree
  /\ pc[r] = "ready"
  /\ ~OthersInFlight(r, cid[r])
  /\ chat_history' = [chat_history EXCEPT ![r] = GeminiHistory(lists[history[r]])]
  /\ asked' = [asked EXCEPT ![r] = user_message[r]]
  /\ upstream_calls' = [upstream_calls EXCEPT ![r] = @ + 1]
  /\ pc' = [pc EXCEPT ![r] = "awaiting"]
  /\ last' = NoReply
  /\ UNCHANGED <<conversations, lists, cid, user_message, history, received,
                 full_response, emitted, exc, outcome, sent, sequential>>

\* generate(): from its first line to `await asyncio.to_thread(...)`, where
\* the upstream call runs in a worker thread and the generator is suspended
GenStart(r) ==
  /\ LoopFree
  /\ pc[r] = "ready"
  /\ chat_history' = [chat_history EXCEPT ![r] = GeminiHistory(lists[history[r]])]
  /\ asked' = [asked EXCEPT ![r] = user_message[r]]
  /\ upstream_calls' = [upstream_calls EXCEPT ![r] = @ + 1]
  /\ pc' = [pc EXCEPT ![r] = "awaiting"]
  /\ last' = NoReply
  /\ UNCHANGED <<conversations, lists, cid, user_message, history, received,
                 full_response, emitted, exc, outcome, sent, sequential>>

\* send_message returned the streamed response: the generator enters the
\* for loop, whose next(response) blocks the event loop until a chunk is there
ConnectOk(r) ==
  /\ LoopFree
  /\ pc[r] = "awaiting"
  /\ pc' = [pc EXCEPT ![r] = "iterating"]
  /\ last' = NoReply
  /\ UNCHANGED <<conversations, lists, request_vars, sent, sequential>>

\* send_message raised
ConnectFail(r, e) ==
  /\ LoopFree
  /\ pc[r] = "awaiting"
  /\ Except(r, e)
  /\ UNCHANGED <<conversations, cid, user_message, history, chat_history, asked,
                 upstream_calls, sent, sequential>>

\* the response delivers: the loop runs on to its next yield or to the end
NextChunk(r, resp) ==
  /\ pc[r] = "iterating"
  /\ Continue(r, resp)
  /\ UNCHANGED <<conversations, cid, user_message, history, chat_history, asked,
                 upstream_calls, sent, sequential>>

\* the generator is resumed after `yield chunk.text` and asks for the next
\* chunk, blocking the event loop
Resume(r) ==
  /\ LoopFree
  /\ pc[r] = "atyield"
  /\ pc' = [pc EXCEPT ![r] = "iterating"]
  /\ last' = NoReply
  /\ UNCHANGED <<conversations, lists, request_vars, sent, sequential>>

\* the generator is resumed after `yield error_msg`
ResumeError(r) ==
  /\ LoopFree
  /\ pc[r] = "atyielderror"
  /\ Commit(r, ErrorResponse(full_response[r], exc[r]))
  /\ Finish(r, "failed")
  /\ last' = NoReply
  /\ UNCHANGED <<conversations, cid, user_message, history, chat_history, asked,
                 received, full_response, emitted, exc, upstream_calls, sent,
                 sequential>>

\* the client goes away: CancelledError / GeneratorExit is raised at the
\* suspension point, and `except Exception` does not catch it
Disconnect(r) ==
  /\ LoopFree
  /\ InFlight(r)
  /\ Finish(r, "cancelled")
  /\ last' = NoReply
  /\ UNCHANGED <<conversations, lists, cid, user_message, history, chat_history,
                 asked, received, full_response, emitted, exc, upstream_calls, sent,
                 sequential>>

get_conversation_creating(id) ==
  /\ LoopFree
  /\ get_or_create_conversation(id)
  /\ last' = Step("get", 0, id, "200", DictGet(id))
  /\ UNCHANGED <<pc, request_vars, sent, sequential>>

\* GET /api/conversations/{conversation_id}
get_conversation(id) ==
  /\ LoopFree
  /\ last' = Step("get", 0, id, "200", DictGet(id))
  /\ UNCHANGED <<conversations, lists, pc, request_vars, sent, sequential>>

\* POST /api/conversations/{conversation_id}/clear
clear_conversation(id) ==
  /\ LoopFree
  /\ conversations' = IF id \in DOMAIN conversations THEN DictDel(id) ELSE conversations
  /\ last' = Step("clear", 0, id, "cleared", <<>>)
  /\ sent' = [sent EXCEPT ![id] = <<>>]
  /\ sequential' = [sequential EXCEPT ![id] = ~OthersInFlight(0, id)]
  /\ UNCHANGED <<lists, pc, request_vars>>

\* GET /api/health
health_check ==
  /\ LoopFree
  /\ last' = Step("health", 0, NoId, "healthy", <<>>)
  /\ UNCHANGED <<conversations, lists, pc, request_vars, sent, sequential>>

Next ==
  \/ \E r \in Reqs, id \in Ids, content \in Contents : chat(r, id, content)
  \/ \E r \in Reqs : GenStart(r)
  \/ \E r \in Reqs : ConnectOk(r)
  \/ \E r \in Reqs, e \in ExcTexts : ConnectFail(r, e)
  \/ \E r \in Reqs, resp \in Deliveries : NextChunk(r, resp)
  \/ \E r \in Reqs : Resume(r)
  \/ \E r \in Reqs : ResumeError(r)
  \/ \E r \in Reqs : Disconnect(r)
  \/ \E id \in Ids : get_conversation(id)
  \/ \E id \in Ids : clear_conversation(id)
  \/ health_check

Spec == Init /\ [][Next]_vars

\* ------------------------------------------------------------ properties
RECURSIVE Flatten(_)
Flatten(fragments) ==
  IF fragments = <<>> THEN <<>> ELSE Head(fragments) \o Flatten(Tail(fragments))

Blank(s) == \A i \in 1..Len(s) : s[i] \in Whitespace

\* what GET conversation returns for id after the step
StoredAfter(id) ==
  IF id \in DOMAIN conversations' THEN lists'[conversations'[id]] ELSE <<>>

\* the step ends request r's stream: exhausted (completed) or failed
Finishing(r) ==
  pc[r] # "done" /\ pc'[r] = "done" /\ outcome'[r] \in {"completed", "failed"}

Finished(r) == pc[r] = "done" /\ outcome[r] \in {"completed", "failed"}

\* the text an ended stream stores: the accumulated text, or the error text
\* when the upstream failed with nothing accumulated
FinalText(r) == IF full_response[r] # <<>> THEN full_response[r] ELSE ErrorPrefix \o exc[r]

\* list `after` is list `before` with one (user, assistant) pair at its end
GainsPair(before, after, content, text) ==
  after = before \o <<Msg("user", content), Msg("assistant", text)>>

\* C1: once a chat stream has run to completion, GET conversation for its id
\* returns a list whose last two entries are the user message with the sent
\* content and the assistant message with the accumulated text.
C1_GetAfterCompletedSend ==
  [][\A r \in Reqs :
       (pc[r] # "done" /\ pc'[r] = "done" /\ outcome'[r] = "completed") =>
         LET m == StoredAfter(cid[r]) IN
           /\ Len(m) >= 2
           /\ m[Len(m) - 1] = Msg("user", user_message[r])
           /\ m[Len(m)] = Msg("assistant", full_response'[r])]_vars

\* C2: on every path of a validated chat invocation, the concatenation of the
\* fragments emitted to the output stream equals the content of the assistant
\* message the invocation commits.
C2_StreamEqualsStored ==
  [][\A r \in Reqs :
       Finishing(r) =>
         LET h == lists'[history[r]] IN
           /\ h # <<>>
           /\ h[Len(h)].role = "assistant"
           /\ h[Len(h)].content = Flatten(emitted'[r])]_vars

\* C3: a validated chat invocation commits exactly one (user message, final
\* assistant text) pair: in the step that ends its stream, completed or
\* failed, in no step before it, and in no step after it.
C3_CommitOnceAtEnd ==
  [][/\ \A r \in Reqs : pc[r] = "done" => pc'[r] = "done" /\ outcome'[r] = outcome[r]
     /\ Len(lists') >= Len(lists)
     /\ \A h \in 1..Len(lists') :
          LET ending == {r \in Reqs : history[r] = h /\ Finishing(r)} IN
            IF h > Len(lists) THEN lists'[h] = <<>>
            ELSE IF ending = {} THEN lists'[h] = lists[h]
            ELSE \E r \in ending :
                   /\ ending = {r}
                   /\ pc[r] \in {"iterating", "atyielderror"}
                   /\ GainsPair(lists[h], lists'[h], user_message[r],
                                IF full_response[r] # <<>> THEN full_response[r]
                                ELSE IF outcome'[r] = "completed" THEN FALLBACK
                                ELSE ErrorPrefix \o exc'[r])]_vars

C3_Witness ==
  \E r \in Reqs, q \in Reqs :
    /\ r # q /\ history[r] = history[q]
    /\ pc[r] = "done" /\ outcome[r] = "completed"
    /\ pc[q] = "done" /\ outcome[q] = "failed"
    /\ Len(lists[history[r]]) = 4

\* C4: a chat request with empty or whitespace-only content is rejected with
\* a 400 and nothing else happens: no upstream call, no key registered, no
\* stored history changed, then or later.
C4_BlankRejected ==
  [][\A r \in Reqs :
       /\ (pc[r] = "idle" /\ pc'[r] # "idle" /\ Blank(user_message'[r])) =>
            /\ pc'[r] = "rejected"
            /\ last' = Step("chat", r, cid'[r], "400", <<>>)
            /\ conversations' = conversations
            /\ lists' = lists
            /\ upstream_calls' = upstream_calls
       /\ pc[r] = "rejected" =>
            /\ pc'[r] = "rejected"
            /\ upstream_calls'[r] = 0
            /\ history'[r] = 0]_vars

C4_Witness ==
  \E r \in Reqs :
    /\ pc[r] = "rejected"
    /\ user_message[r] = <<" ", " ">>
    /\ last = Step("chat", r, cid[r], "400", <<>>)
    /\ Len(DictGet(cid[r])) = 2
    /\ upstream_calls[r] = 0

\* C5: if the upstream fails before any fragment was emitted, the stream
\* yields the error text as a non-empty fragment, the generator then ends
\* normally, and in ending it adds to its conversation exactly one user and
\* assistant pair whose assistant content is that error text.
C5_EarlyFailure ==
  [][\A r \in Reqs :
       /\ (emitted[r] = <<>> /\ outcome'[r] = "failed") =>
            emitted'[r] # <<>>
       /\ (emitted[r] = <<>> /\ pc[r] \in {"awaiting", "iterating"}
             /\ pc'[r] \notin {"awaiting", "iterating"} /\ exc'[r] # exc[r]) =>
            /\ pc'[r] = "atyielderror"
            /\ emitted'[r] = <<ErrorPrefix \o exc'[r]>>
            /\ lists' = lists
       /\ pc[r] = "atyielderror" =>
            /\ emitted[r] = <<ErrorPrefix \o exc[r]>>
            /\ Flatten(emitted[r]) # <<>>
            /\ pc'[r] \in {"atyielderror", "done"}
            /\ emitted'[r] = emitted[r]
            /\ outcome'[r] = "failed" =>
                 /\ GainsPair(lists[history[r]], lists'[history[r]], user_message[r],
                              ErrorPrefix \o exc[r])
                 /\ \A h \in 1..Len(lists) : h # history[r] => lists'[h] = lists[h]]_vars

C5_Witness ==
  \E r \in Reqs :
    /\ pc[r] = "done" /\ outcome[r] = "failed"
    /\ full_response[r] = <<>>
    /\ emitted[r] = <<ErrorPrefix \o <<"t">>>>
    /\ lists[history[r]] =
         <<Msg("user", <<" ", "b">>), Msg("assistant", ErrorPrefix \o <<"t">>)>>

\* C6: when the upstream is exhausted without having produced text, the
\* fallback message is stored as the assistant response and the output
\* stream has emitted at least one non-empty fragment.
C6_FallbackStoredAndEmitted ==
  \A r \in Reqs :
    (pc[r] = "done" /\ outcome[r] = "completed") =>
      /\ full_response[r] # <<>>
      /\ \E i \in 1..Len(emitted[r]) : emitted[r][i] # <<>>

\* C7: clear(id) always returns {status: cleared, conversation_id: id}; it
\* removes the key of a present id and nothing else, changes nothing for an
\* absent id (so a second clear changes nothing), and right after it GET
\* conversation for id returns the empty list.
C7_Clear ==
  [][last'.op = "clear" =>
       LET id == last'.conversation_id IN
         /\ last' = Step("clear", 0, id, "cleared", <<>>)
         /\ DOMAIN conversations' = DOMAIN conversations \ {id}
         /\ \A k \in DOMAIN conversations' : conversations'[k] = conversations[k]
         /\ id \notin DOMAIN conversations => conversations' = conversations
         /\ lists' = lists
         /\ StoredAfter(id) = <<>>]_vars

C7_Witness ==
  /\ last = Step("clear", 0, "c1", "cleared", <<>>)
  /\ DOMAIN conversations = {"c2"}
  /\ \E r \in Reqs : cid[r] = "c1" /\ Finished(r)
  /\ Len(DictGet("c2")) = 2

\* C8: GET conversation returns the stored messages, or the empty list for
\* an unknown id, and changes nothing: it registers no id and leaves the
\* whole store as it was.  GET health changes no state either.
C8_ReadsChangeNothing ==
  [][/\ last'.op = "get" =>
          LET id == last'.conversation_id IN
            /\ last'.status = "200"
            /\ last'.messages = DictGet(id)
            /\ id \notin DOMAIN conversations => last'.messages = <<>>
            /\ conversations' = conversations
            /\ lists' = lists
            /\ pc' = pc
            /\ request_vars' = request_vars
     /\ last'.op = "health" =>
          /\ last'.status = "healthy"
          /\ conversations' = conversations
          /\ lists' = lists
          /\ pc' = pc
          /\ request_vars' = request_vars]_vars

C8_Witness ==
  /\ last = Step("get", 0, "c2", "200", <<>>)
  /\ DOMAIN conversations = {"c1"}
  /\ Len(DictGet("c1")) = 2

\* the pairs the requests in `reqs` stored, in that order
RECURSIVE PairsOf(_)
PairsOf(reqs) ==
  IF reqs = <<>> THEN <<>>
  ELSE (IF Finished(Head(reqs))
        THEN <<Msg("user", user_message[Head(reqs)]),
               Msg("assistant", FinalText(Head(reqs)))>>
        ELSE <<>>) \o PairsOf(Tail(reqs))

\* C9: sends on one id that did not overlap each other, started from an
\* empty or absent conversation and had no clear in between leave, once
\* their streams have ended, a history of exactly their pairs in send order:
\* 2n messages for n sends.
C9_SequentialSends ==
  \A id \in Ids :
    (sequential[id] /\ \A r \in Reqs : cid[r] = id => ~InFlight(r)) =>
      LET ended == SelectSeq(sent[id], Finished) IN
        /\ DictGet(id) = PairsOf(sent[id])
        /\ Len(DictGet(id)) = 2 * Len(ended)

C9_Witness ==
  /\ sequential["c1"]
  /\ sent["c1"] = <<1, 2>>
  /\ Finished(1) /\ Finished(2)
  /\ full_response[1] # full_response[2]
  /\ last.op = "get" /\ last.conversation_id = "c1"
  /\ Len(last.messages) = 4
  /\ last.messages[2].content = full_response[1]
  /\ last.messages[4].content = full_response[2]

\* C10: in every state a request handler can observe, every conversation has
\* an even number of messages and its roles alternate user, assistant, ...,
\* starting with user.
C10_PairsOnly ==
  \A h \in 1..Len(lists) :
    /\ Len(lists[h]) % 2 = 0
    /\ \A i \in 1..Len(lists[h]) :
         lists[h][i].role = (IF i % 2 = 1 THEN "user" ELSE "assistant")

C10_Witness ==
  \E r \in Reqs, q \in Reqs :
    /\ Finished(q)
    /\ pc[r] = "atyield"
    /\ history[r] = history[q]
    /\ cid[r] \in DOMAIN conversations
    /\ conversations[cid[r]] = history[r]
    /\ Len(DictGet(cid[r])) = 2
    /\ emitted[r] # <<>>

\* C11: the commit of a chat invocation appends its pair to the end of the
\* sequence the store holds for its conversation id at commit time, creating
\* the conversation if it is absent then; so whatever clear(id) was handled
\* while the chat was in flight, right after the commit GET conversation for
\* the id shows the pair.
C11_CommitGoesToStore ==
  [][\A r \in Reqs :
       Finishing(r) =>
         /\ cid[r] \in DOMAIN conversations'
         /\ \E text \in {full_response'[r], ErrorPrefix \o exc'[r]} :
              GainsPair(DictGet(cid[r]), StoredAfter(cid[r]), user_message[r], text)]_vars

\* C12: when the client disconnects while the stream is in progress, so that
\* the generator is ended at the point where it emitted a fragment, the
\* invocation still commits one pair (user message, text accumulated so far)
\* to its conversation.
C12_DisconnectCommits ==
  [][\A r \in Reqs :
       (pc[r] = "atyield" /\ pc'[r] = "done" /\ outcome'[r] = "cancelled") =>
         GainsPair(lists[history[r]], lists'[history[r]], user_message[r],
                   full_response[r])]_vars

\* C13: chat invocations on one conversation id are not serialized against
\* each other: a generator that is ready to start can always start and build
\* its prompt history from the list as it stands, whatever other invocation
\* on the same id is still in flight; so two of them can build their prompts
\* from the same stored history and the one committing second never saw the
\* exchange committed first.
C13_NotSerialized ==
  \A r \in Reqs :
    (pc[r] = "ready" /\ LoopFree) =>
      ENABLED (GenStart(r)
                 /\ chat_history'[r] = GeminiHistory(lists[history[r]]))

C13_Witness ==
  \E r \in Reqs, q \in Reqs :
    /\ r # q
    /\ Finished(r) /\ Finished(q)
    /\ cid[r] = cid[q]
    /\ history[r] = history[q]
    /\ chat_history[r] = chat_history[q]
    /\ upstream_calls[r] = 1 /\ upstream_calls[q] = 1
    /\ Len(lists[history[r]]) = 4
    /\ DictGet(cid[r]) = lists[history[r]]

\* the orders in which the requests of seq can have committed
Orders(seq) ==
  {o \in [1..Len(seq) -> 1..Len(seq)] :
     \A i \in 1..Len(seq), j \in 1..Len(seq) : i # j => o[i] # o[j]}

\* C14: for k valid chat invocations on one id, overlapping in any way, with
\* no clear since the first was accepted: once all have ended, the stored
\* conversation holds exactly their pairs, 2k messages, each pair once with
\* its user and assistant message adjacent, in some order of the invocations.
C14_ConcurrentSends ==
  \A id \in Ids :
    (\A r \in Reqs : cid[r] = id => ~InFlight(r)) =>
      LET ended == SelectSeq(sent[id], Finished) IN
        /\ Len(DictGet(id)) = 2 * Len(ended)
        /\ \E o \in Orders(ended) :
             DictGet(id) = PairsOf([i \in 1..Len(ended) |-> ended[o[i]]])

C14_Witness ==
  /\ ~sequential["c1"]
  /\ sent["c1"] = <<1, 2>>
  /\ Finished(1) /\ Finished(2)
  /\ FinalText(1) # FinalText(2)
  /\ DictGet("c1") = PairsOf(<<2, 1>>)

\* C15: the turn history handed to the upstream model is exactly the
\* conversation stored under the id when the stream starts, in stored order,
\* user messages tagged "user" and assistant messages tagged "model", and the
\* turn to answer is the new user message; building it changes no stored
\* conversation, and the new user message is not yet stored at that point.
C15_PromptIsStoredHistory ==
  [][\A r \in Reqs :
       (pc[r] = "ready" /\ pc'[r] = "awaiting") =>
         /\ chat_history'[r] = GeminiHistory(DictGet(cid[r]))
         /\ asked'[r] = user_message[r]
         /\ conversations' = conversations /\ lists' = lists
         /\ Len(StoredAfter(cid[r])) = Len(chat_history'[r])]_vars

\* C16: while a stream is in progress, the fragments emitted to the client
\* are the fragments with text taken from the upstream, in arrival order, none
\* reordered, duplicated or dropped, and the accumulator is the concatenation
\* of the fragments emitted so far; each fragment is accumulated and emitted
\* before the next one is taken.
C16_EmitAndAccumulate ==
  \A r \in Reqs :
    pc[r] \in {"awaiting", "iterating", "atyield"} =>
      /\ emitted[r] = received[r]
      /\ full_response[r] = Flatten(emitted[r])
      /\ pc[r] = "awaiting" => received[r] = <<>>

C16_Witness ==
  \E r \in Reqs :
    /\ pc[r] = "atyield"
    /\ received[r] = <<<<"x">>, <<"y">>>>
    /\ emitted[r] = <<<<"x">>, <<"y">>>>
    /\ full_response[r] = <<"x", "y">>

\* the positions of generate() by state of the invocation
NotStarted == {"ready"}
Streaming == {"awaiting", "iterating", "atyield"}
FailedUncommitted == {"atyielderror"}

\* the moves generate() makes by itself
Moves(from) ==
  CASE from = "ready" -> {"awaiting"}
    [] from = "awaiting" -> {"iterating", "atyielderror", "done"}
    [] from = "iterating" -> {"atyield", "atyielderror", "done"}
    [] from = "atyield" -> {"iterating"}
    [] from = "atyielderror" -> {"done"}
    [] OTHER -> {}

\* C17: one chat invocation moves only NotStarted -> Streaming -> Completed
\* or Failed. The upstream call is issued once, on entering Streaming, and
\* never again, in particular not after a failure; a failure ends the stream;
\* a terminal state is never left; and the invocation enters Completed or
\* Failed with its single commit, which is the only step left to a stream
\* that failed and emitted the error text. (A stream ended by the client's
\* disconnect is the case of C12.)
C17_StateMachine ==
  [][\A r \in Reqs :
       /\ (pc[r] \in NotStarted \cup Streaming \cup FailedUncommitted
             /\ pc'[r] # pc[r] /\ outcome'[r] # "cancelled") =>
            /\ pc'[r] \in Moves(pc[r])
            /\ pc'[r] = "done" => outcome'[r] \in {"completed", "failed"}
            /\ pc[r] \in FailedUncommitted => outcome'[r] = "failed"
       /\ upstream_calls'[r] =
            IF pc[r] \in NotStarted /\ pc'[r] \in Streaming THEN 1 ELSE upstream_calls[r]
       /\ upstream_calls[r] = (IF pc[r] \in Streaming \cup FailedUncommitted THEN 1
                               ELSE IF pc[r] = "done" THEN upstream_calls[r] ELSE 0)
       /\ exc'[r] # exc[r] =>
            /\ pc[r] \in Streaming
            /\ pc'[r] \in FailedUncommitted \/ (pc'[r] = "done" /\ outcome'[r] = "failed")
       /\ pc[r] = "done" => pc'[r] = "done" /\ outcome'[r] = outcome[r]
       /\ Finishing(r) =>
            Len(lists'[history[r]]) = Len(lists[history[r]]) + 2]_vars

C17_Witness ==
  \E r \in Reqs, q \in Reqs :
    /\ pc[r] = "done" /\ outcome[r] = "completed" /\ received[r] # <<>>
    /\ pc[q] = "done" /\ outcome[q] = "failed" /\ exc[q] # <<>>
    /\ Len(emitted[q]) = 1 /\ received[q] = <<>>
    /\ upstream_calls[r] = 1 /\ upstream_calls[q] = 1
    /\ history[r] # history[q]
    /\ Len(lists[history[r]]) = 2 /\ Len(lists[history[q]]) = 2

\* C18: while a chat invocation waits for the upstream connection or for the
\* upstream's next fragment, the event loop is free: GET health, GET
\* conversation and clear can be handled during the wait, and so can the
\* start of another accepted chat.
C18_WaitsDoNotBlock ==
  \A r \in Reqs :
    pc[r] \in {"awaiting", "iterating"} =>
      /\ ENABLED health_check
      /\ \A id \in Ids : ENABLED get_conversation(id) /\ ENABLED clear_conversation(id)
      /\ \A q \in Reqs : pc[q] = "ready" => ENABLED GenStart(q)

\* list `after` is list `before`, untouched, with one user message and one
\* assistant message after it
ExtendedByPair(before, after) ==
  /\ Len(after) = Len(before) + 2
  /\ SubSeq(after, 1, Len(before)) = before
  /\ after[Len(before) + 1].role = "user"
  /\ after[Len(after)].role = "assistant"

\* C19: stored messages are immutable and conversations append-only between
\* clears: in every step the conversation stored under an id is unchanged, or
\* extended at its end by one user+assistant pair, or removed by clear of that
\* id; no stored message is modified, reordered or removed by itself.
C19_AppendOnly ==
  [][/\ \A id \in Ids :
          \/ StoredAfter(id) = DictGet(id)
          \/ ExtendedByPair(DictGet(id), StoredAfter(id))
          \/ /\ last'.op = "clear" /\ last'.conversation_id = id
             /\ id \notin DOMAIN conversations'
     /\ \A h \in 1..Len(lists) :
          /\ h <= Len(lists')
          /\ lists'[h] = lists[h] \/ ExtendedByPair(lists[h], lists'[h])]_vars

C19_Witness ==
  \E r \in Reqs, q \in Reqs :
    /\ Finished(r) /\ Finished(q)
    /\ cid[r] = "c1" /\ cid[q] = "c1"
    /\ history[r] # history[q]
    /\ Len(lists[history[r]]) = 2
    /\ "c1" \in DOMAIN conversations /\ conversations["c1"] = history[q]
    /\ Len(DictGet("c1")) = 2

\* the step is a request on id, or a step of the stream of a chat on id
Acts(id) ==
  \/ last'.op \in {"chat", "get", "clear"} /\ last'.conversation_id = id
  \/ last' = NoReply /\ \E r \in Reqs : pc'[r] # pc[r] /\ cid[r] = id

\* C20: conversations are isolated by id: a chat, a GET or a clear on one id,
\* and every step of a chat's stream, leaves the message sequence stored
\* under every other id, and whether that id is registered, as it was.
C20_IsolatedById ==
  [][\A y \in Ids :
       \/ Acts(y)
       \/ /\ StoredAfter(y) = DictGet(y)
          /\ (y \in DOMAIN conversations') = (y \in DOMAIN conversations)]_vars

C20_Witness ==
  \E r \in Reqs, q \in Reqs :
    /\ cid[r] = "c1" /\ cid[q] = "c2"
    /\ Finished(r) /\ Finished(q)
    /\ FinalText(r) # FinalText(q)
    /\ last.op = "clear" /\ last.conversation_id = "c1"
    /\ "c1" \notin DOMAIN conversations
    /\ lists[history[r]] = PairsOf(<<r>>)
    /\ DictGet("c2") = PairsOf(<<q>>)

====
